---- MODULE Spec2Model ----
(***************************************************************************)
(* A model of mod_installer.py: the license-gated install / uninstall      *)
(* lifecycle of downloadable game mods.                                    *)
(*                                                                         *)
(* Strings whose characters matter (mod names, serial keys, the "User      *)
(* Mods" field, drive links) are sequences of one-token strings, so that   *)
(* str.strip, str.lower, str.split and the "in" test are computed and not  *)
(* assumed.  A drive link is a sequence of tokens in which the markers     *)
(* "/file/d/" and "id=" are single tokens.                                 *)
(*                                                                         *)
(* Handlers that run on the Tk main thread (on_login, install_mod,         *)
(* uninstall_mod) are one action each.  What a handler or a thread was     *)
(* called with and what it answered is kept in ev for the one state in     *)
(* which it returns.  The body of the download thread is cut at every      *)
(* filesystem call, so two download threads, and a download thread and a   *)
(* main-thread handler, interleave between those calls.  A thread keeps    *)
(* the label and progress bar it was started with; what it writes to them  *)
(* after load_mod_list destroyed the row is seen nowhere on screen.        *)
(*                                                                         *)
(* Environment faults: every HTTP call can answer 200, answer non-200 or   *)
(* raise; gdown.download can write the staging file, return without        *)
(* writing it, or raise; os.rename and the os.chmod inside                 *)
(* set_file_attributes / remove_file_attributes can raise OSError; calls   *)
(* on a path that no longer exists raise.                                  *)
(***************************************************************************)
EXTENDS Integers, Sequences, FiniteSets, TLC

\* Bound: how many installs get as far as starting their threads.
MaxInstalls == 2

\* os.path.getsize(temp_file) < 500000
MinAssetSize == 500000

--------------------------------------------------------------------------
\* Python values

\* None, where the code expects a string.
NoneStr == <<"<None>">>

Whitespace == {" "}

RECURSIVE LStrip(_)
LStrip(s) ==
    IF s = <<>> THEN s
    ELSE IF Head(s) \in Whitespace THEN LStrip(Tail(s)) ELSE s

RECURSIVE RStrip(_)
RStrip(s) ==
    IF s = <<>> THEN s
    ELSE IF s[Len(s)] \in Whitespace THEN RStrip(SubSeq(s, 1, Len(s) - 1)) ELSE s

\* str.strip()
Strip(s) == RStrip(LStrip(s))

LowerChar(c) ==
    CASE c = "A" -> "a"
      [] c = "B" -> "b"
      [] c = "K" -> "k"
      [] c = "N" -> "n"
      [] OTHER -> c

\* str.lower()
Lower(s) == [i \in 1..Len(s) |-> LowerChar(s[i])]

\* sep in s
Contains(s, sep) == \E i \in 1..Len(s) : s[i] = sep

\* s.split(sep): the segments between the occurrences of sep, never empty.
RECURSIVE Split(_, _)
Split(s, sep) ==
    IF ~Contains(s, sep) THEN <<s>>
    ELSE LET i == CHOOSE i \in 1..Len(s) :
                     s[i] = sep /\ \A j \in 1..(i - 1) : s[j] # sep
         IN  <<SubSeq(s, 1, i - 1)>> \o Split(SubSeq(s, i + 1, Len(s)), sep)

\* "not x" for a string or None
Falsy(x) == x = NoneStr \/ x = <<>>

Range(s) == {s[i] : i \in 1..Len(s)}

--------------------------------------------------------------------------
\* The remote service's data the model draws from

\* Drive links: both URL shapes, a link with neither marker, and a link
\* whose identifier is empty.
LinkFile    == <<"h", "/file/d/", "x", "/", "v">>
LinkId      == <<"h", "id=", "y", "&", "e">>
LinkNoId    == <<"h", "/", "x">>
LinkEmptyId == <<"h", "id=", "&", "e">>

Internals == {"truck", "trailer"}

\* Catalogs the server may hold at start-up: lists of records with the keys
\* "Mod Name", "Google Drive Link", "Serial Key", "Mod Internal Name".
CatalogPlain ==
    << [name |-> <<"A">>, link |-> LinkFile, key |-> <<"K">>, internal |-> "truck"],
       [name |-> <<"c">>, link |-> LinkId, key |-> <<" ", "k">>, internal |-> "trailer"] >>

CatalogOdd ==
    << [name |-> <<" ", "a">>, link |-> LinkNoId, key |-> <<"K", " ">>, internal |-> "truck"],
       [name |-> <<"A">>, link |-> LinkEmptyId, key |-> <<"N">>, internal |-> "trailer"] >>

Catalogs == {CatalogPlain, CatalogOdd}

\* Values of the "User Mods" field of the user's record.
UserModsStrs == { <<"b">>, <<" ", "A", ",", ",", "b">> }

\* What the user can type into the serial-key dialog; NoneStr is Cancel.
InputKeys == { <<"K">>, <<" ", "K">>, <<"k">>, <<"N">>, NoneStr }

\* Byte counts gdown.download can leave in the staging file.
TransferSizes == {499999, 500000}

HttpOutcomes == {"ok", "http_error", "exception"}

\* fetch_mod_list treats a non-200 answer and an exception alike.
FetchOutcomes == {"ok", "error"}
AttrOutcomes == {"ok", "oserror"}

--------------------------------------------------------------------------
VARIABLES
    app,        \* "login" or "main": which window is up
    catalog,    \* the server's mod list
    userMods,   \* the server's "User Mods" field of the user
    issued,     \* how many rotated keys the server has stored
    final,      \* the asset files, by internal name: <internal>.scs
    tmp,        \* the staging files, by internal name: <internal>.scs.tmp
    gen,        \* identity of the rows on screen: which load_mod_list built them
    ui,         \* the rows on screen
    widgets,    \* progress label and progress bar of each row on screen
    dl,         \* the download threads, in the order install_mod started them
    rot,        \* the update_key threads, in the same order
    used,       \* the (mod name, key) pairs of the installs reported successful
    ev          \* the call that has just returned, with its inputs and outcome

vars == <<app, catalog, userMods, issued, final, tmp, gen, ui, widgets, dl, rot, used, ev>>

NoEvent == [op |-> "none"]

NoFile == [exists |-> FALSE, size |-> 0, prot |-> FALSE]
File(size) == [exists |-> TRUE, size |-> size, prot |-> FALSE]

Slots == 1..MaxInstalls

NoWidget == <<0, 0>>

\* short: gdown.download returned and left the staging file missing or under
\* the size limit.  overlap: another install of the same mod was in flight at
\* some time during this download.
IdleDownload == [pc |-> "idle", name |-> <<>>, internal |-> "", key |-> <<>>, w |-> NoWidget,
                 res |-> "none", short |-> FALSE, overlap |-> FALSE]

\* A download thread of mod int that has returned, once nothing reads its
\* result.
Finished(int) == [IdleDownload EXCEPT !.pc = "done", !.internal = int]

\* The record of thread i once it has returned: that it ran beside another
\* install of the same mod is remembered.
Ended(i) == [Finished(dl[i].internal) EXCEPT !.overlap = dl[i].overlap]

IdleRotation == [pc |-> "idle", internal |-> ""]

Running(i) == dl[i].pc \notin {"idle", "done"}

Free(i) == dl[i].pc = "idle" /\ rot[i].pc = "idle"

--------------------------------------------------------------------------
\* API communication (the client side of it)

EntitlementOutcomes == {"ok", "no_field", "exception"}

\* [mod.strip().lower() for mod in user_mods_str.split(",") if mod.strip()]
ParseUserMods(str) ==
    LET kept == SelectSeq(Split(str, ","), LAMBDA m : Strip(m) # <<>>)
    IN  [i \in 1..Len(kept) |-> Lower(Strip(kept[i]))]

\* get_user_purchased_mods: the parsed field on a 200 answer that carries it,
\* [] on every other answer and on an exception.
GetUserPurchasedMods(o) ==
    IF o = "ok" THEN ParseUserMods(userMods) ELSE <<>>

\* fetch_mod_list: r.json() on a 200 answer, [] otherwise.
FetchModList(o) ==
    IF o = "ok" THEN catalog ELSE <<>>

\* The message boxes of fetch_mod_list: showerror on every answer but 200.
FetchNotes(fo) ==
    IF fo = "ok" THEN {} ELSE {"Error fetching mod list"}

\* The message boxes of get_user_purchased_mods: showerror on an exception only.
EntitlementNotes(eo) ==
    IF eo = "exception" THEN {"Error fetching user mods"} ELSE {}

\* The server's side of /update_serial_key: the rows of that internal name
\* get the new key.
ServerUpdateKey(list, internal, newKey) ==
    [n \in 1..Len(list) |->
        IF list[n].internal = internal THEN [list[n] EXCEPT !.key = newKey] ELSE list[n]]

--------------------------------------------------------------------------
\* extract_drive_file_id

ExtractDriveFileId(link) ==
    IF Contains(link, "/file/d/")
    THEN Split(Split(link, "/file/d/")[2], "/")[1]
    ELSE IF Contains(link, "id=")
         THEN Split(Split(link, "id=")[2], "&")[1]
         ELSE NoneStr

--------------------------------------------------------------------------
\* load_mod_list

\* A load_mod_list that shows every catalog entry, whatever the user bought.
EntitledAlways(mod, purch) == TRUE

\* mod_name_norm in purchased_mods
Entitled(mod, purch) == Lower(Strip(mod.name)) \in Range(purch)

\* One row per catalog entry that passes the entitlement test; the Uninstall
\* button is packed when the asset file exists.
Rows(purch, list, fin) ==
    LET shown == SelectSeq(list, LAMBDA m : Entitled(m, purch))
    IN  [n \in 1..Len(shown) |->
            [name |-> shown[n].name, internal |-> shown[n].internal,
             link |-> shown[n].link, uninstall |-> fin[shown[n].internal].exists]]

\* Generations of rows a running download thread still holds widgets of.
Held(tasks) == {tasks[i].w[1] : i \in {j \in Slots : tasks[j].pc \notin {"idle", "done"}}}

\* The identity of the rebuilt rows: the least generation no thread holds.
FreeGen(tasks) ==
    CHOOSE g \in 0..MaxInstalls :
        g \notin Held(tasks) /\ \A h \in 0..(g - 1) : h \in Held(tasks)

FreshWidget == [label |-> "", bar |-> 0]

\* configure/set on the label and bar w: seen on screen while the row lives.
SetWidget(wid, w, val) ==
    IF w[1] = gen THEN [wid EXCEPT ![w[2]] = val] ELSE wid

SetLabel(wid, w, text) ==
    IF w[1] = gen THEN [wid EXCEPT ![w[2]].label = text] ELSE wid

\* load_mod_list, run when the disk is fin and the threads are tasks: destroys
\* the rows and builds them again.
LoadModList(eo, fo, fin, tasks) ==
    LET rows == Rows(GetUserPurchasedMods(eo), FetchModList(fo), fin)
    IN  /\ ui' = rows
        /\ gen' = FreeGen(tasks)
        /\ widgets' = [n \in 1..Len(rows) |-> FreshWidget]

--------------------------------------------------------------------------
\* on_login / main_ui

OnLogin(ao, eo, fo) ==
    /\ ev = NoEvent
    /\ app = "login"
    /\ ao # "ok" => eo = "ok" /\ fo = "ok"
    /\ IF ao = "ok"
       THEN /\ app' = "main"
            /\ LoadModList(eo, fo, final, dl)
       ELSE UNCHANGED <<app, gen, ui, widgets>>
    /\ ev' = [op |-> "login", auth |-> ao, entitlement |-> eo, fetch |-> fo]
    /\ UNCHANGED <<catalog, userMods, issued, final, tmp, dl, rot, used>>

\* The call has returned: the main loop, or the thread's caller, goes on.
Continue ==
    /\ ev # NoEvent
    /\ ev' = NoEvent
    /\ UNCHANGED <<app, catalog, userMods, issued, final, tmp, gen, ui, widgets,
                   dl, rot, used>>

--------------------------------------------------------------------------
\* install_mod

\* An install_mod that compares the keys as they are, without strip().
RECURSIVE ValidateExact(_, _, _)
ValidateExact(list, modName, keyIn) ==
    IF list = <<>> THEN "no_match"
    ELSE LET mod == Head(list)
         IN  IF mod.name # modName THEN ValidateExact(Tail(list), modName, keyIn)
             ELSE IF mod.key = keyIn THEN "match"
             ELSE ValidateExact(Tail(list), modName, keyIn)

\* The for loop of install_mod over the fetched list: "match" at the first
\* entry with this name and this key, "raise" when the key is None and an entry
\* has this name (None.strip()), "no_match" when the loop runs out.
RECURSIVE Validate(_, _, _)
Validate(list, modName, keyIn) ==
    IF list = <<>> THEN "no_match"
    ELSE LET mod == Head(list)
         IN  IF mod.name # modName THEN Validate(Tail(list), modName, keyIn)
             ELSE IF keyIn = NoneStr THEN "raise"
             ELSE IF Strip(mod.key) = Strip(keyIn) THEN "match"
             ELSE Validate(Tail(list), modName, keyIn)

\* The path install_mod takes with row r, key k, the catalog answer fo and
\* the outcome ao of remove_file_attributes.
InstallPath(r, k, fo, ao) ==
    LET v == Validate(FetchModList(fo), ui[r].name, k)
    IN  IF v = "raise" THEN "raised_key"
        ELSE IF v = "no_match" THEN "invalid_key"
        ELSE IF Falsy(ExtractDriveFileId(ui[r].link)) THEN "invalid_link"
        ELSE IF final[ui[r].internal].exists /\ ao = "oserror" THEN "raised_attr"
        ELSE "started"

\* An install_mod that goes on after "Invalid Google Drive link!".
GoesOnUnlessKey(path) == path \in {"invalid_link", "started"}

\* Whether install_mod gets to the file and the threads: it has returned
\* before on every other path.
GoesOn(path) == path = "started"

\* An install_mod that leaves the file of the earlier install where it is.
KeepExisting(fin, int) == fin

\* if os.path.exists(mod_path): remove_file_attributes(mod_path); os.remove(mod_path)
RemoveExisting(fin, int) == [fin EXCEPT ![int] = NoFile]

\* The thread download_with_gdown starts.
NewDownload(r, k) ==
    [pc |-> "transfer", name |-> ui[r].name, internal |-> ui[r].internal, key |-> k,
     w |-> <<gen, r>>, res |-> "none", short |-> FALSE,
     overlap |-> \E j \in Slots : Running(j) /\ dl[j].internal = ui[r].internal]

\* The thread install_mod starts for update_key.
NewRotation(r) ==
    [pc |-> "post", internal |-> ui[r].internal]

\* progress_label and progress_bar of row w after the handler, by path.
InstallWidgets(path, w) ==
    CASE path = "raised_key" -> widgets
      [] path = "invalid_key" -> SetLabel(widgets, w, "Invalid Key")
      [] OTHER -> SetWidget(widgets, w, [label |-> "Preparing", bar |-> 0])

\* The message boxes install_mod shows on the path it takes; an exception
\* that escapes the handler shows none.
InstallNotes(path, fo) ==
    FetchNotes(fo) \cup
        CASE path = "invalid_key"  -> {"Invalid serial key!"}
          [] path = "invalid_link" -> {"Invalid Google Drive link!"}
          [] OTHER -> {}

\* The place of the next install's threads.
FreeSlot == CHOOSE i \in Slots : Free(i) /\ \A j \in 1..(i - 1) : ~Free(j)

\* ev.existed: the asset file was there when the handler was called;
\* ev.touched: the handler changed a file or started a thread.
Install(r, k, fo, ao) ==
    /\ ev = NoEvent
    /\ app = "main"
    /\ r \in 1..Len(ui)
    /\ LET path == InstallPath(r, k, fo, ao)
           int  == ui[r].internal
       IN  /\ path = "started" => \E i \in Slots : Free(i)
           /\ path \notin {"started", "raised_attr"} => ao = "ok"
           /\ widgets' = InstallWidgets(path, <<gen, r>>)
           /\ IF GoesOn(path)
              THEN /\ final' = RemoveExisting(final, int)
                   /\ dl' = [j \in Slots |->
                               IF j = FreeSlot THEN NewDownload(r, k)
                               ELSE IF Running(j) /\ dl[j].internal = int
                                    THEN [dl[j] EXCEPT !.overlap = TRUE] ELSE dl[j]]
                   /\ rot' = [rot EXCEPT ![FreeSlot] = NewRotation(r)]
              ELSE UNCHANGED <<final, dl, rot>>
    /\ UNCHANGED <<app, catalog, userMods, issued, tmp, gen, ui, used>>
    /\ ev' = [op |-> "install", row |-> r, key |-> k, fetch |-> fo,
              path |-> InstallPath(r, k, fo, ao),
              existed |-> final[ui[r].internal].exists,
              notes |-> InstallNotes(InstallPath(r, k, fo, ao), fo),
              touched |-> <<final', tmp', dl', rot'>> # <<final, tmp, dl, rot>>]

--------------------------------------------------------------------------
\* uninstall_mod

\* The path uninstall_mod takes with row r and the outcome ao of
\* remove_file_attributes.
UninstallPath(r, ao) ==
    IF ~final[ui[r].internal].exists THEN "not_found"
    ELSE IF ao = "oserror" THEN "raised_attr"
    ELSE "removed"

\* The endpoints load_mod_list calls.
LoadCalls == {"get_user_mods", "get_available_mods"}

\* The endpoints uninstall_mod calls on the path it takes.
UninstallCalls(path) ==
    IF path = "removed" THEN LoadCalls ELSE {}

\* The message boxes uninstall_mod shows on the path it takes, those of
\* load_mod_list included.
UninstallNotes(path, eo, fo) ==
    CASE path = "removed"   -> {"uninstalled!"} \cup EntitlementNotes(eo) \cup FetchNotes(fo)
      [] path = "not_found" -> {"Mod not found."}
      [] OTHER -> {}

\* The label of the row says "uninstalled" until load_mod_list destroys it.
\* ev.existed: the asset file was there when the handler was called.
Uninstall(r, ao, eo, fo) ==
    /\ ev = NoEvent
    /\ app = "main"
    /\ r \in 1..Len(ui)
    /\ ui[r].uninstall
    /\ ~final[ui[r].internal].exists => ao = "ok"
    /\ UninstallPath(r, ao) # "removed" => eo = "ok" /\ fo = "ok"
    /\ IF UninstallPath(r, ao) = "removed"
       THEN LET fin == [final EXCEPT ![ui[r].internal] = NoFile]
            IN  /\ final' = fin
                /\ LoadModList(eo, fo, fin, dl)
       ELSE UNCHANGED <<final, gen, ui, widgets>>
    /\ UNCHANGED <<app, catalog, userMods, issued, tmp, dl, rot, used>>
    /\ ev' = [op |-> "uninstall", row |-> r, internal |-> ui[r].internal,
              path |-> UninstallPath(r, ao),
              notes |-> UninstallNotes(UninstallPath(r, ao), eo, fo),
              calls |-> UninstallCalls(UninstallPath(r, ao)),
              existed |-> final[ui[r].internal].exists,
              touched |-> <<final', tmp'>> # <<final, tmp>>,
              entitlement |-> eo, fetch |-> fo]

--------------------------------------------------------------------------
\* download_with_gdown.download: the thread in slot i, step by step

At(i, pc) == ev = NoEvent /\ dl[i].pc = pc

\* The message boxes download() shows before it returns res, those of
\* load_mod_list included.
DownloadNotes(res, eo, fo) ==
    CASE res = "gate"      -> {"Download failed! Try again."}
      [] res = "exception" -> {"Failed to download mod"}
      [] OTHER -> {"installed successfully!"} \cup EntitlementNotes(eo) \cup FetchNotes(fo)

\* download() returns res after load_mod_list got the answers eo and fo, if it
\* was called.  ev.at: the step the thread was at when it returned.
Returns(i, res, eo, fo) ==
    /\ dl' = [dl EXCEPT ![i] = IF rot[i].pc = "done" THEN Ended(i)
                               ELSE [Ended(i) EXCEPT !.res = res]]
    /\ ev' = [op |-> "download", slot |-> i, internal |-> dl[i].internal, w |-> dl[i].w,
              result |-> res, at |-> dl[i].pc, notes |-> DownloadNotes(res, eo, fo),
              short |-> dl[i].short, overlap |-> dl[i].overlap,
              entitlement |-> eo, fetch |-> fo]
    /\ UNCHANGED rot

\* except Exception: logging.error, showerror, the label set to "Download
\* Failed"; the progress bar is left as it is.  wid are the widgets as the
\* try block left them.
Except(i, wid) ==
    /\ Returns(i, "exception", "ok", "ok")
    /\ widgets' = SetLabel(wid, dl[i].w, "Download Failed")

\* The branch of the size check that gives up: showerror, the label, the bar.
GateFailed(i) ==
    /\ Returns(i, "gate", "ok", "ok")
    /\ widgets' = SetWidget(widgets, dl[i].w, [label |-> "Download Failed", bar |-> 0])

TransferOutcomes == {"written", "nothing", "raise"}

\* progress_label "Initializing Download...", progress_bar 0, gdown.download:
\* the staging file written ("written"), nothing written ("nothing"), or an
\* exception ("raise").
Transfer(i, out, size) ==
    /\ At(i, "transfer")
    /\ out # "written" => size = MinAssetSize
    /\ LET int == dl[i].internal
           wid == SetWidget(widgets, dl[i].w, [label |-> "Initializing", bar |-> 0])
       IN  CASE out = "written" ->
                 /\ tmp' = [tmp EXCEPT ![int] = File(size)]
                 /\ dl' = [dl EXCEPT ![i].pc = "progress",
                                     ![i].short = size < MinAssetSize]
                 /\ widgets' = wid
                 /\ UNCHANGED <<rot, ev>>
             [] out = "nothing" ->
                 /\ dl' = [dl EXCEPT ![i].pc = "progress",
                                     ![i].short = \/ ~tmp[int].exists
                                                  \/ tmp[int].size < MinAssetSize]
                 /\ widgets' = wid
                 /\ UNCHANGED <<tmp, rot, ev>>
             [] OTHER ->
                 /\ Except(i, wid)
                 /\ UNCHANGED tmp
    /\ UNCHANGED <<app, catalog, userMods, issued, final, gen, ui, used>>

\* The simulated progress loop, then the first operand of the size check,
\* not os.path.exists(temp_file).
Progress(i) ==
    /\ At(i, "progress")
    /\ widgets' = SetWidget(widgets, dl[i].w, [label |-> "Downloading", bar |-> 91])
    /\ dl' = [dl EXCEPT ![i].pc = IF tmp[dl[i].internal].exists THEN "getsize" ELSE "fexists"]
    /\ UNCHANGED <<app, catalog, userMods, issued, final, tmp, gen, ui, rot, used, ev>>

\* A size check that lets every file through.
TooSmallNever(f) == FALSE

\* os.path.getsize(temp_file) < 500000
TooSmall(f) == f.size < MinAssetSize

\* The second operand of the size check; getsize raises when the file is gone.
GetSize(i) ==
    /\ At(i, "getsize")
    /\ LET f == tmp[dl[i].internal]
       IN  IF ~f.exists THEN Except(i, widgets)
           ELSE /\ dl' = [dl EXCEPT ![i].pc = IF TooSmall(f) THEN "fexists" ELSE "rename"]
                /\ UNCHANGED <<widgets, rot, ev>>
    /\ UNCHANGED <<app, catalog, userMods, issued, final, tmp, gen, ui, used>>

\* if os.path.exists(temp_file): ... else the failure is reported at once.
FailExists(i) ==
    /\ At(i, "fexists")
    /\ IF tmp[dl[i].internal].exists
       THEN /\ dl' = [dl EXCEPT ![i].pc = "fremove"]
            /\ UNCHANGED <<widgets, rot, ev>>
       ELSE GateFailed(i)
    /\ UNCHANGED <<app, catalog, userMods, issued, final, tmp, gen, ui, used>>

\* os.remove(temp_file), which raises when the file is gone, then the report.
FailRemove(i) ==
    /\ At(i, "fremove")
    /\ IF tmp[dl[i].internal].exists
       THEN /\ tmp' = [tmp EXCEPT ![dl[i].internal] = NoFile]
            /\ GateFailed(i)
       ELSE /\ Except(i, widgets)
            /\ UNCHANGED tmp
    /\ UNCHANGED <<app, catalog, userMods, issued, final, gen, ui, used>>

\* os.rename(temp_file, destination)
Rename(i, o) ==
    /\ At(i, "rename")
    /\ ~tmp[dl[i].internal].exists => o = "ok"
    /\ LET int == dl[i].internal
       IN  IF tmp[int].exists /\ o = "ok"
           THEN /\ final' = [final EXCEPT ![int] = tmp[int]]
                /\ tmp' = [tmp EXCEPT ![int] = NoFile]
                /\ dl' = [dl EXCEPT ![i].pc = "protect"]
                /\ UNCHANGED <<widgets, rot, ev>>
           ELSE /\ Except(i, widgets)
                /\ UNCHANGED <<final, tmp>>
    /\ UNCHANGED <<app, catalog, userMods, issued, gen, ui, used>>

\* set_file_attributes(destination), then the label "Mod Installed!", the bar
\* at 1 and showinfo.
Protect(i, o) ==
    /\ At(i, "protect")
    /\ ~final[dl[i].internal].exists => o = "ok"
    /\ LET int == dl[i].internal
       IN  IF final[int].exists /\ o = "ok"
           THEN /\ final' = [final EXCEPT ![int].prot = TRUE]
                /\ dl' = [dl EXCEPT ![i].pc = "refresh", ![i].res = "ok"]
                /\ widgets' = SetWidget(widgets, dl[i].w,
                                        [label |-> "Mod Installed!", bar |-> 100])
                /\ used' = used \cup {<<dl[i].name, dl[i].key>>}
                /\ UNCHANGED <<rot, ev>>
           ELSE /\ Except(i, widgets)
                /\ UNCHANGED <<final, used>>
    /\ UNCHANGED <<app, catalog, userMods, issued, tmp, gen, ui>>

\* load_mod_list(current_user_email); return True
Refresh(i, eo, fo) ==
    /\ At(i, "refresh")
    /\ Returns(i, "ok", eo, fo)
    /\ LoadModList(eo, fo, final, [dl EXCEPT ![i] = Finished(dl[i].internal)])
    /\ UNCHANGED <<app, catalog, userMods, issued, final, tmp, used>>

--------------------------------------------------------------------------
\* install_mod.update_key: the thread that calls post_update_serial_key

\* str(uuid.uuid4()).replace("-", "")[:14].upper(): a key no earlier call has
\* made.
NewKey == [n \in 1..(issued + 1) |-> "N"]

\* A post_update_serial_key that returns the key whatever the answer.
KeyReturnedAlways(o, key) == key

\* What post_update_serial_key returns: the key on a 200 answer, None after
\* the error box of every other answer and of an exception.
KeyReturned(o, key) ==
    IF o = "ok" THEN key ELSE NoneStr

\* requests.post answers 200 ("ok"), answers otherwise ("http_error") or
\* raises ("exception"); the server stores the key when it answers 200.
\* ev.touched: the thread changed a file or a widget.
UpdateKey(i, o) ==
    /\ ev = NoEvent
    /\ rot[i].pc = "post"
    /\ rot' = [rot EXCEPT ![i] = [IdleRotation EXCEPT !.pc = "done"]]
    /\ dl' = [dl EXCEPT ![i] = IF dl[i].pc = "done" THEN Ended(i) ELSE @]
    /\ catalog' = IF o = "ok" THEN ServerUpdateKey(catalog, rot[i].internal, NewKey)
                  ELSE catalog
    /\ issued' = IF o = "ok" THEN issued + 1 ELSE issued
    /\ UNCHANGED <<app, userMods, final, tmp, gen, ui, widgets, used>>
    /\ ev' = [op |-> "update_key", slot |-> i, internal |-> rot[i].internal, result |-> o,
              returned |-> KeyReturned(o, NewKey),
              download |-> dl[i].pc, downloaded |-> dl[i].res,
              touched |-> <<final', tmp', widgets', ui'>> # <<final, tmp, widgets, ui>>]

--------------------------------------------------------------------------
\* The remote service changes the user's entitlements.

ServerSetUserMods(str) ==
    /\ ev = NoEvent
    /\ str # userMods
    /\ userMods' = str
    /\ UNCHANGED <<app, catalog, issued, final, tmp, gen, ui, widgets, dl, rot, used, ev>>

--------------------------------------------------------------------------
\* A mod installed by an earlier run of the program.
Installed == [File(MinAssetSize + 1) EXCEPT !.prot = TRUE]

Init ==
    /\ app = "login"
    /\ catalog \in Catalogs
    /\ userMods = <<" ", "A", ",", ",", "b">>
    /\ issued = 0
    /\ final = [n \in Internals |-> IF n = "truck" THEN Installed ELSE NoFile]
    /\ tmp = [n \in Internals |-> NoFile]
    /\ gen = 0
    /\ ui = <<>>
    /\ widgets = <<>>
    /\ dl = [i \in Slots |-> IdleDownload]
    /\ rot = [i \in Slots |-> IdleRotation]
    /\ used = {}
    /\ ev = NoEvent

Next ==
    \/ \E ao \in HttpOutcomes, eo \in EntitlementOutcomes, fo \in FetchOutcomes :
          OnLogin(ao, eo, fo)
    \/ Continue
    \/ \E r \in 1..Len(ui), k \in InputKeys, fo \in FetchOutcomes, ao \in AttrOutcomes :
          Install(r, k, fo, ao)
    \/ \E r \in 1..Len(ui), ao \in AttrOutcomes, eo \in EntitlementOutcomes,
          fo \in FetchOutcomes :
          Uninstall(r, ao, eo, fo)
    \/ \E i \in Slots, out \in TransferOutcomes, size \in TransferSizes :
          Transfer(i, out, size)
    \/ \E i \in Slots : Progress(i)
    \/ \E i \in Slots : GetSize(i)
    \/ \E i \in Slots : FailExists(i)
    \/ \E i \in Slots : FailRemove(i)
    \/ \E i \in Slots, o \in AttrOutcomes : Rename(i, o)
    \/ \E i \in Slots, o \in AttrOutcomes : Protect(i, o)
    \/ \E i \in Slots, eo \in EntitlementOutcomes, fo \in FetchOutcomes : Refresh(i, eo, fo)
    \/ \E i \in Slots, o \in HttpOutcomes : UpdateKey(i, o)
    \/ \E str \in UserModsStrs : ServerSetUserMods(str)

Spec == Init /\ [][Next]_vars

--------------------------------------------------------------------------
\* Properties

\* The paths of install_mod that get past the key check.
PastValidation == {"invalid_link", "raised_attr", "started"}

\* The contents of the mod folder: which files exist and how long they are.
Disk == [n \in Internals |->
            <<final[n].exists, final[n].size, tmp[n].exists, tmp[n].size>>]

\* A load_mod_list has just run, and got ev.entitlement and ev.fetch.
Loaded ==
    \/ ev.op = "login" /\ ev.auth = "ok"
    \/ ev.op = "uninstall" /\ ev.path = "removed"
    \/ ev.op = "download" /\ ev.result = "ok"

\* C1: install_mod gets past the key check if and only if the catalog it has
\* just fetched holds an entry whose Mod Name equals the row's name and whose
\* Serial Key, stripped, equals the supplied key, stripped.
C1_ValidationIffMatch ==
    ev.op = "install" =>
        LET list == FetchModList(ev.fetch)
        IN  ev.path \in PastValidation <=>
                \E n \in 1..Len(list) :
                    /\ list[n].name = ui[ev.row].name
                    /\ ev.key # NoneStr
                    /\ Strip(list[n].key) = Strip(ev.key)

\* An install went on with a key that matches only once it is stripped.
C1_Witness ==
    /\ ev.op = "install"
    /\ ev.path = "started"
    /\ ev.key = <<" ", "K">>

\* C2: in one install, the key check comes before every change of the mod
\* folder, and every change of the mod folder by the download thread comes
\* before the install's update_key request.
C2_MutationsBeforeRotation ==
    [][ /\ \A i \in Slots :
              rot[i].pc = "done" /\ dl'[i].pc # dl[i].pc => Disk' = Disk
        /\ ev'.op = "install" /\ ev'.path \notin PastValidation => Disk' = Disk ]_vars

\* C3: update_key sends its request only once the install's download has
\* returned True.
C3_RotationAfterSuccess ==
    ev.op = "update_key" => ev.download = "done" /\ ev.downloaded = "ok"

\* C4: a key that an install reported successful was given with does not get
\* a later install of that mod past the key check.
C4_KeySingleUse ==
    ev.op = "install" /\ <<ui[ev.row].name, ev.key>> \in used
        => ev.path \notin PastValidation

\* What C5 promises when download() has returned.
FailedClean ==
    /\ ~final[ev.internal].exists
    /\ ~tmp[ev.internal].exists
    /\ ev.w[1] = gen => widgets[ev.w[2]].label = "Download Failed"

\* C5, as written: when gdown.download has left the staging file missing or
\* under 500000 bytes then, once download() has returned, there is no file
\* at the final path, no staging file, and the label says "Download Failed".
C5_ShortTransferFails ==
    ev.op = "download" /\ ev.short => FailedClean

\* C5, amended: the same, for a download during which no other install of
\* the same mod was in flight.
C5_ShortTransferFailsAlone ==
    ev.op = "download" /\ ev.short /\ ~ev.overlap => FailedClean

\* A download that was alone has given up at the size check.
C5_Witness ==
    /\ ev.op = "download"
    /\ ev.short
    /\ ~ev.overlap
    /\ ev.result = "gate"

\* C6: an install_mod that finds no matching key, or no file identifier in
\* the link, returns without starting a thread and without deleting or
\* creating a file.
C6_FailedValidationTouchesNothing ==
    ev.op = "install" /\ ev.path \in {"invalid_key", "invalid_link"} => ~ev.touched

\* An install of a mod whose file exists has stopped at the link.
C6_Witness ==
    /\ ev.op = "install"
    /\ ev.path = "invalid_link"
    /\ ev.existed
    /\ final[ui[ev.row].internal].exists

\* C7: an install gets as far as the download only for a mod that is in the
\* user's entitlements as the server holds them at that time.
C7_InstallOnlyEntitled ==
    ev.op = "install" /\ ev.path = "started"
        => Lower(Strip(ui[ev.row].name)) \in Range(ParseUserMods(userMods))

\* C8: after load_mod_list every row, and so every Install button, is of a
\* catalog entry whose stripped lowercase name is in the list that
\* get_user_purchased_mods returned; there is none when that list is empty.
C8_RowsAreEntitled ==
    Loaded =>
        \A n \in 1..Len(ui) :
            /\ Lower(Strip(ui[n].name)) \in Range(GetUserPurchasedMods(ev.entitlement))
            /\ \E m \in 1..Len(catalog) : catalog[m].name = ui[n].name

\* A load that showed one entry of the catalog and left another out.
C8_Witness ==
    /\ Loaded
    /\ ev.fetch = "ok"
    /\ Len(ui) = 1
    /\ Len(catalog) = 2

\* C9: uninstall_mod reports "Mod not found." and changes no file when the
\* asset file does not exist, and removes the file and reports it
\* uninstalled when it exists.
C9_UninstallReports ==
    ev.op = "uninstall" =>
        /\ ~ev.existed => ev.path = "not_found" /\ ~ev.touched
        /\ ev.existed => ev.path = "removed" /\ ~final[ev.internal].exists

\* C10: an install that got past validation has deleted the file of the
\* earlier install when it starts the download thread, and that file is
\* never at the final path again.
C10_OldFileRemovedFirst ==
    /\ ev.op = "install" /\ ev.path = "started" => ~final[ui[ev.row].internal].exists
    /\ \A i \in Slots : dl[i].pc # "idle" => final[dl[i].internal] # Installed

\* A re-install has put its own download where the earlier file was.
C10_Witness ==
    /\ ev.op = "download"
    /\ ev.result = "ok"
    /\ final[ev.internal].exists
    /\ final[ev.internal] # Installed
    /\ final["trailer"] = NoFile
    /\ ev.internal = "truck"

\* C11: the key check takes no account of letter case or of surrounding
\* blanks: an install whose key equals an entry's key once both are stripped
\* and put in lower case gets past validation.
C11_KeyCaseInsensitive ==
    ev.op = "install" /\ ev.key # NoneStr =>
        LET list == FetchModList(ev.fetch)
        IN  (\E n \in 1..Len(list) :
                /\ list[n].name = ui[ev.row].name
                /\ Lower(Strip(list[n].key)) = Lower(Strip(ev.key)))
            => ev.path \in PastValidation

\* What the progress label says after a failure.
FailureLabels == {"Invalid Key", "Download Failed"}

\* C12: every failure of an install or of an uninstall (invalid key, invalid
\* link, size check, exception in the download, mod not found) shows its
\* message box and leaves a failure text on the progress label of its row.
C12_FailureShownTwice ==
    /\ ev.op = "install" /\ ev.path = "invalid_key" =>
          "Invalid serial key!" \in ev.notes /\ widgets[ev.row].label \in FailureLabels
    /\ ev.op = "install" /\ ev.path = "invalid_link" =>
          /\ "Invalid Google Drive link!" \in ev.notes
          /\ widgets[ev.row].label \in FailureLabels
    /\ ev.op = "uninstall" /\ ev.path = "not_found" =>
          "Mod not found." \in ev.notes /\ widgets[ev.row].label \in FailureLabels
    /\ ev.op = "download" /\ ev.result \in {"gate", "exception"} /\ ev.w[1] = gen =>
          ev.notes # {} /\ widgets[ev.w[2]].label \in FailureLabels

\* An install or an uninstall attempt has just finished and no download
\* thread is left running.
AttemptFinished ==
    /\ \/ ev.op = "download"
       \/ ev.op = "uninstall"
       \/ ev.op = "install" /\ ev.path # "started"
    /\ \A i \in Slots : ~Running(i)

\* C13: when an install or an uninstall attempt has finished, each row on the
\* screen has an Uninstall button exactly if the file of its mod exists.
C13_ControlsMatchDisk ==
    AttemptFinished =>
        \A n \in 1..Len(ui) : ui[n].uninstall = final[ui[n].internal].exists

\* C14: uninstall_mod calls no endpoint of the API server, whether the file
\* was there or not.
C14_UninstallIsLocal ==
    ev.op = "uninstall" => ev.calls = {}

\* C15: when a step of download() has raised and no other install of the same
\* mod ran meanwhile, no staging file is left, and the final file is absent
\* or complete.
C15_ExceptionLeavesNoStaging ==
    ev.op = "download" /\ ev.result = "exception" /\ ~ev.overlap =>
        /\ ~tmp[ev.internal].exists
        /\ final[ev.internal].exists => ~TooSmall(final[ev.internal])

\* C16: an error of set_file_attributes or remove_file_attributes does not
\* fail the caller: a download that got as far as protecting the placed file
\* does not end in its except block, and no install or uninstall handler is
\* left by an exception of remove_file_attributes.
C16_AttributeErrorsTolerated ==
    /\ ev.op = "download" /\ ev.at = "protect" /\ ~ev.overlap => ev.result = "ok"
    /\ ev.op \in {"install", "uninstall"} => ev.path # "raised_attr"

\* What the progress label says when an install has come to its end.
TerminalLabels == {"Mod Installed!"} \cup FailureLabels

\* C17: an install that has come to its end without placing the file, in
\* install_mod itself or in its download thread, leaves a terminal text on
\* the progress label of its row, never "Preparing" or "Downloading".
C17_InstallEndsTerminal ==
    /\ ev.op = "install" /\ ev.path \in {"invalid_key", "invalid_link"} =>
          widgets[ev.row].label \in TerminalLabels
    /\ ev.op = "download" /\ ev.result # "ok" /\ ev.w[1] = gen =>
          widgets[ev.w[2]].label \in TerminalLabels

\* C18, as written: in every state the final path of each mod is empty or
\* holds a file of at least 500000 bytes.
C18_FinalIsComplete ==
    \A n \in Internals : final[n].exists => final[n].size >= MinAssetSize

\* C18 for installs that run alone: a file under 500000 bytes is at a final
\* path only if two installs of that mod have run side by side.
C18_FinalIsCompleteAlone ==
    \A n \in Internals :
        final[n].exists /\ final[n].size < MinAssetSize =>
            \E i \in Slots : dl[i].internal = n /\ dl[i].overlap

\* A download that ran alone has just renamed a staging file that passed the
\* size check, after an earlier install that ran alone has ended.
C18_Witness ==
    \E i \in Slots :
        /\ dl[i].pc = "protect" /\ ~dl[i].overlap
        /\ final[dl[i].internal] = File(MinAssetSize)
        /\ \E j \in Slots : dl[j].pc = "done" /\ ~dl[j].overlap

\* C19: a step of a download thread changes neither a progress label, nor a
\* progress bar, nor the rows of the mod list: the widgets are written in the
\* main loop only.
C19_ThreadsLeaveWidgets ==
    [][ (\E i \in Slots : Running(i) /\ dl'[i].pc # dl[i].pc) =>
            widgets' = widgets /\ ui' = ui /\ gen' = gen ]_vars

\* C20: post_update_serial_key returns a key exactly when the server answered
\* 200, and a rotation that failed has changed no file and no widget of the
\* install it belongs to.
C20_FailedRotationHarmless ==
    ev.op = "update_key" =>
        /\ ev.returned # NoneStr <=> ev.result = "ok"
        /\ ev.result # "ok" => ~ev.touched

\* The rotation has failed beside a download that has placed and protected
\* its file and set the label of its row to "Mod Installed!".
C20_Witness ==
    /\ ev.op = "update_key" /\ ev.result = "http_error"
    /\ ev.download = "refresh"
    /\ final[ev.internal].exists /\ final[ev.internal].prot
    /\ dl[ev.slot].w[1] = gen
    /\ widgets[dl[ev.slot].w[2]].label = "Mod Installed!"
====
